---- MODULE Spec2Model ----
(***************************************************************************)
(* Initial block synchronisation of the beacon node                        *)
(* (beacon-chain/sync/initial-sync/service.go).                            *)
(*                                                                         *)
(* The model follows the InitialSync service: the fields of the struct are *)
(* the variables, every case of the select in run() is one action that     *)
(* models the whole handler, and processBlock with the functions it calls  *)
(* (setBlockForInitialSync, validateAndSaveNextBlock,                      *)
(* requestNextBlockBySlot ...) is a recursive operator over a record of    *)
(* the engine's fields.  Calls on the collaborators (db.SaveBlock,         *)
(* db.SaveCrystallizedState, p2p.Broadcast, p2p.Send,                      *)
(* syncService.ResumeSync, Subscription.Unsubscribe) are appended, in      *)
(* call order, to the log `out` of the transition that makes them.         *)
(*                                                                         *)
(* Spec takes every handler as one step: the event loop and                *)
(* checkInMemoryBlocks are serialized, one handler at a time.              *)
(***************************************************************************)
EXTENDS Naturals, Sequences, FiniteSets, TLC

\* ------------------------------------------------------------------ bounds
\* Slots carried by blocks, announcements and crystallized states: 0..MaxSlot.
MaxSlot == 3
\* Hash values are 0..MaxRoot; 0 is the zero hash [32]byte{}.
MaxRoot == 1
\* Peers are 1..MaxPeer; 0 is the empty p2p.Peer{}.
MaxPeer == 1
\* Longest batched block response.
MaxBatch == 2
\* Capacity of crystallizedStateBuf (Config.CrystallizedStateBufferSize).
MaxQueue == 2
\* The network stops answering once db.SaveCrystallizedState was called this
\* often.
MaxStateSaves == 2
\* Outcomes of db.SaveBlock drawn per transition: the k-th call of a
\* transition gets the k-th outcome, later calls get the last one.
MaxOutcomes == 2

ZeroHash == 0
NoPeer == 0

Slots == 0..MaxSlot
Hashes == 0..MaxRoot
Peers == 1..MaxPeer

\* pb.BeaconBlock as far as the service reads it: GetSlot / SlotNumber and
\* CrystallizedStateRoot.  The service reads the root of the initial block
\* (slot 1) only, so the blocks of the other slots are drawn with one root.
Blocks == {b \in [slot : Slots, root : Hashes] : b.slot # 1 => b.root = MaxRoot}

\* types.CrystallizedState as far as the service reads it: Hash() and
\* LastFinalizedSlot().  The hash is a content hash, so two states with the
\* same hash have the same last finalized slot: a state is named by its hash
\* h and its LastFinalizedSlot is lfsOf[h], drawn when the service first
\* reads it.  A state whose Hash() fails is the state with the zero hash
\* (the zero value left in `hash` at line 216).
CrystallizedStates == [hash : Hashes]

Batches == UNION {[1..n -> Blocks] : n \in 0..MaxBatch}

\* Outcomes of db.SaveBlock for one transition (TRUE: nil error).
Outcomes == [1..MaxOutcomes -> BOOLEAN]
AllSaved == [k \in 1..MaxOutcomes |-> TRUE]

\* The outcomes to draw for a handler that calls db.SaveBlock n times when
\* every call succeeds: a handler reads no outcome before its first call, so
\* with n = 0 it makes no call under any outcomes and one draw stands for all.
OutcomesFor(n) == IF n = 0 THEN {AllSaved} ELSE Outcomes

VARIABLES
    currentSlot,                  \* s.currentSlot
    highestObservedSlot,          \* s.highestObservedSlot
    initialCrystallizedStateRoot, \* s.initialCrystallizedStateRoot
    inMemoryBlocks,               \* s.inMemoryBlocks: slot -> block
    crystallizedStateBuf,         \* s.crystallizedStateBuf: queued responses
    crystallizedStateUnsub,       \* calls of crystallizedStateSub.Unsubscribe
    cancelled,                    \* s.ctx is done
    runState,                     \* the run goroutine: idle, running, done
    checkState,                   \* the checkInMemoryBlocks goroutine
    crashed,                      \* the process died of a stack overflow
    lfsOf,                        \* LastFinalizedSlot of the states read so far
    ev,                           \* the case the last transition handled
    out,                          \* the calls the last transition made
    savedBlocks,                  \* blocks db.SaveBlock stored, in order
    savedStates,                  \* calls of db.SaveCrystallizedState so far
    resumeCalls,                  \* calls of syncService.ResumeSync so far
    frames                        \* where each goroutine stands inside processBlock

vars == <<currentSlot, highestObservedSlot, initialCrystallizedStateRoot,
          inMemoryBlocks, crystallizedStateBuf, crystallizedStateUnsub,
          cancelled, runState, checkState, crashed, lfsOf, ev, out,
          savedBlocks, savedStates, resumeCalls, frames>>

\* ------------------------------------------------------------ the call log
Call(op, slot, hash, peer, ok) ==
    [op |-> op, slot |-> slot, hash |-> hash, peer |-> peer, ok |-> ok, of |-> ""]

SaveBlockCall(block, ok) == Call("SaveBlock", block.slot, block.root, NoPeer, ok)
BlockRequest(slot) == Call("BeaconBlockRequestBySlotNumber", slot, ZeroHash, NoPeer, TRUE)
\* StartSlot in slot, EndSlot in hash's place.
BatchedRequest(start, end) == Call("BatchedBeaconBlockRequest", start, end, NoPeer, TRUE)
StateRequest(hash, peer) == Call("CrystallizedStateRequest", 0, hash, peer, TRUE)
SaveStateCall(hash, lfs) == Call("SaveCrystallizedState", lfs, hash, NoPeer, TRUE)
ResumeSyncCall == Call("ResumeSync", 0, ZeroHash, NoPeer, TRUE)
\* Unsubscribe of a subscription and close of a channel, by the field's name.
UnsubscribeCall(sub) ==
    [Call("Unsubscribe", 0, ZeroHash, NoPeer, TRUE) EXCEPT !.of = sub]
CloseCall(buf) ==
    [Call("close", 0, ZeroHash, NoPeer, TRUE) EXCEPT !.of = buf]

\* ------------------------------------------------- the engine as a record
\* The fields a handler reads and writes, with the log of its calls.
\* db: the outcomes of this transition's db.SaveBlock calls; calls: how many
\* were made; depth: nested processBlock frames.
Engine(db) ==
    [currentSlot |-> currentSlot,
     highestObservedSlot |-> highestObservedSlot,
     initialCrystallizedStateRoot |-> initialCrystallizedStateRoot,
     inMemoryBlocks |-> inMemoryBlocks,
     savedBlocks |-> savedBlocks,
     crashed |-> FALSE,
     out |-> <<>>,
     db |-> db,
     calls |-> 0,
     depth |-> 0]

\* A chain of nested processBlock calls deeper than this never returns: by
\* then every drawn outcome is used up, the last one is an error, and the
\* same buffered block is retried with the same result in every frame, until
\* the goroutine's stack is exhausted.
MaxDepth == MaxOutcomes + MaxSlot + 3

Emit(st, call) == [st EXCEPT !.out = Append(@, call)]

\* A buffer that takes no block.
BufferBlockDrops(st, block) == st

\* s.inMemoryBlocks[slot] = block, only when the slot has no entry.
BufferBlock(st, block) ==
    IF block.slot \in DOMAIN st.inMemoryBlocks
    THEN st
    ELSE [st EXCEPT !.inMemoryBlocks = (block.slot :> block) @@ @]

\* delete(s.inMemoryBlocks, slot)
DeleteBlock(mem, slot) == [k \in (DOMAIN mem) \ {slot} |-> mem[k]]

\* The outcome of the next db.SaveBlock call of the transition.
NextSaveOK(st) ==
    LET k == st.calls + 1
    IN  st.db[IF k <= MaxOutcomes THEN k ELSE MaxOutcomes]

\* s.db.SaveBlock(block): the call is logged; the block is stored when the
\* call returns nil.
WriteBlockToDB(st, block) ==
    LET ok == NextSaveOK(st)
    IN  [st EXCEPT !.out = Append(@, SaveBlockCall(block, ok)),
                   !.calls = @ + 1,
                   !.savedBlocks = IF ok THEN Append(@, block) ELSE @]

\* An error of writeBlockToDB that is dropped.
LastSaveIgnored(st) == FALSE

\* The error writeBlockToDB returned last.
LastSaveFailed(st) == ~st.out[Len(st.out)].ok

\* Line 272: the block raises highestObservedSlot.
ObserveSlot(st, slot) ==
    IF slot > st.highestObservedSlot
    THEN [st EXCEPT !.highestObservedSlot = slot]
    ELSE st

\* Line 276: the block is behind the cursor.
IsStale(st, block) == block.slot < st.currentSlot

\* Line 281: an anchor root is already set.
AnchorRootSet(st) == st.initialCrystallizedStateRoot # ZeroHash

\* Any block past the genesis slot taken for the initial block.
IsInitialBlockAnySlot(block) == block.slot >= 1

\* Line 284: only the block of slot 1 is the initial block.
IsInitialBlock(block) == block.slot = 1

\* Lines 303 and 397: the block is the one right after the cursor.
IsNextBlock(st, block) == block.slot = st.currentSlot + 1

\* A cursor that skips the slot after the block it commits.
AdvanceCursorSkips(st, block) ==
    [st EXCEPT !.currentSlot = block.slot + 1,
               !.inMemoryBlocks = DeleteBlock(@, block.slot)]

\* Lines 397-410 of validateAndSaveNextBlock, after a successful write.
AdvanceCursor(st, block) ==
    [st EXCEPT !.currentSlot = block.slot,
               !.inMemoryBlocks = DeleteBlock(@, block.slot)]

\* validateAndSaveNextBlock: the block right after the cursor is written to
\* the db and becomes the cursor; a failed write returns before the cursor
\* moves.
ValidateAndSaveNextBlock(st, block) ==
    IF st.currentSlot = 0
    THEN st
    ELSE IF IsNextBlock(st, block)
         THEN LET w == WriteBlockToDB(st, block)
              IN  IF LastSaveFailed(w) THEN w ELSE AdvanceCursor(w, block)
         ELSE st

\* requestCrystallizedStateFromPeer
RequestCrystallizedStateFromPeer(st, block, peer) ==
    Emit(st, StateRequest(block.root, peer))

RECURSIVE ProcessBlock(_, _, _)
RECURSIVE RequestNextBlockBySlot(_, _)

\* A request that goes to the network whatever the buffer holds.
RequestNextBlockBySlotAlways(st, slotnumber) ==
    Emit(st, BlockRequest(slotnumber))

\* requestNextBlockBySlot: a buffered block of that slot is processed in
\* place of the broadcast.
RequestNextBlockBySlot(st, slotnumber) ==
    IF slotnumber \in DOMAIN st.inMemoryBlocks
    THEN ProcessBlock(st, st.inMemoryBlocks[slotnumber], NoPeer)
    ELSE Emit(st, BlockRequest(slotnumber))

\* setBlockForInitialSync: the block is written to the db, its crystallized
\* state root becomes the anchor root and its slot the cursor; a failed
\* write returns before any of that.
SetBlockForInitialSync(st, block) ==
    LET w == WriteBlockToDB(st, block)
    IN  IF LastSaveFailed(w)
        THEN w
        ELSE RequestNextBlockBySlot(
                 [w EXCEPT !.initialCrystallizedStateRoot = block.root,
                           !.currentSlot = block.slot],
                 block.slot + 1)

\* processBlock
ProcessBlock(st, block, peer) ==
    IF st.crashed
    THEN st
    ELSE IF st.depth >= MaxDepth
    THEN [st EXCEPT !.crashed = TRUE]
    ELSE
    LET s1 == ObserveSlot([st EXCEPT !.depth = @ + 1], block.slot)
    IN  IF IsStale(s1, block)
        THEN s1
        ELSE IF s1.currentSlot = 0
        THEN IF AnchorRootSet(s1)
             THEN s1
             ELSE IF ~IsInitialBlock(block)
             THEN RequestNextBlockBySlot(BufferBlock(s1, block), 1)
             ELSE LET s2 == SetBlockForInitialSync(s1, block)
                  IN  IF s2.crashed
                      THEN s2
                      ELSE RequestCrystallizedStateFromPeer(s2, block, peer)
        ELSE IF ~IsNextBlock(s1, block)
        THEN BufferBlock(s1, block)
        ELSE LET s2 == ValidateAndSaveNextBlock(s1, block)
             IN  RequestNextBlockBySlot(s2, s2.currentSlot + 1)

\* A call of processBlock from the event loop or from checkInMemoryBlocks:
\* the bottom frame of a chain.
Feed(st, block, peer) == ProcessBlock([st EXCEPT !.depth = 0], block, peer)

\* processBatchedBlocks: the blocks of the response, in order.
RECURSIVE ProcessBatchedBlocks(_, _, _)
ProcessBatchedBlocks(st, blocks, peer) ==
    IF blocks = <<>> \/ st.crashed
    THEN st
    ELSE ProcessBatchedBlocks(Feed(st, Head(blocks), peer), Tail(blocks), peer)

\* requestBatchedBlocks
RequestBatchedBlocks(st, endSlot) ==
    Emit(st, BatchedRequest(st.currentSlot + 1, endSlot))

\* The deferred function of run(): lines 168-176.
Cleanup ==
    <<UnsubscribeCall("blockSub"), UnsubscribeCall("blockAnnounceSub"),
      UnsubscribeCall("crystallizedStateSub"), UnsubscribeCall("batchedBlocksub"),
      CloseCall("batchedBlockBuf"), CloseCall("blockBuf"),
      CloseCall("crystallizedStateBuf")>>

\* A goroutine's place inside a processBlock chain: the statement it is at
\* (idle: not in a chain), the block and the peer of the innermost call, the
\* argument of the requestNextBlockBySlot call it is about to make, and the
\* crystallized state request the frame of line 296 still has to send
\* (<<hash, peer>>, or <<>>).
Frame(pc, block, peer, req, pending) ==
    [pc |-> pc, block |-> block, peer |-> peer, req |-> req, pending |-> pending]

IdleFrame == Frame("idle", [slot |-> 0, root |-> ZeroHash], NoPeer, 0, <<>>)

\* The event loop and checkInMemoryBlocks, both outside processBlock.
NoFrames == [loop |-> IdleFrame, drain |-> IdleFrame]

\* --------------------------------------------------------------- the state
Init ==
    /\ currentSlot = 0
    /\ highestObservedSlot = 0
    /\ initialCrystallizedStateRoot = ZeroHash
    /\ inMemoryBlocks = <<>>
    /\ crystallizedStateBuf = <<>>
    /\ crystallizedStateUnsub = 0
    /\ cancelled = FALSE
    /\ runState = "idle"
    /\ checkState = "idle"
    /\ crashed = FALSE
    /\ lfsOf = <<>>
    /\ ev = "new"
    /\ out = <<>>
    /\ savedBlocks = <<>>
    /\ savedStates = 0
    /\ resumeCalls = 0
    /\ frames = NoFrames

\* The engine's fields after a handler that ended in state st.
Commit(st) ==
    /\ currentSlot' = st.currentSlot
    /\ highestObservedSlot' = st.highestObservedSlot
    /\ initialCrystallizedStateRoot' = st.initialCrystallizedStateRoot
    /\ inMemoryBlocks' = st.inMemoryBlocks
    /\ savedBlocks' = st.savedBlocks
    /\ crashed' = st.crashed
    /\ out' = st.out

engineVars == <<currentSlot, highestObservedSlot, initialCrystallizedStateRoot,
                inMemoryBlocks, savedBlocks, crashed>>

\* The event loop selects among the cases that are ready.
LoopRunning == runState = "running" /\ ~crashed

\* ------------------------------------------------------------- Start, Stop
\* Start: IsSynced() answered (synced, err); err is only logged.
Start(synced, err) ==
    /\ runState = "idle"
    /\ runState' = IF synced THEN "skipped" ELSE "running"
    /\ checkState' = IF synced THEN "skipped" ELSE "running"
    /\ ev' = "start"
    /\ out' = <<>>
    /\ UNCHANGED frames
    /\ UNCHANGED <<engineVars, crystallizedStateBuf, crystallizedStateUnsub,
                   cancelled, lfsOf, savedStates, resumeCalls>>

\* Stop: s.cancel()
Stop ==
    /\ ~crashed
    /\ cancelled' = TRUE
    /\ ev' = "stop"
    /\ out' = <<>>
    /\ UNCHANGED frames
    /\ UNCHANGED <<engineVars, crystallizedStateBuf, crystallizedStateUnsub,
                   runState, checkState, lfsOf, savedStates, resumeCalls>>

\* ------------------------------------------------------- the cases of run()
\* case <-s.ctx.Done(): the loop returns and the deferred function runs.
Done ==
    /\ LoopRunning
    /\ cancelled
    /\ runState' = "done"
    /\ crystallizedStateUnsub' = crystallizedStateUnsub + 1
    /\ ev' = "ctx.Done"
    /\ out' = Cleanup
    /\ UNCHANGED frames
    /\ UNCHANGED <<engineVars, crystallizedStateBuf, cancelled, checkState,
                   lfsOf, savedStates, resumeCalls>>

\* A convergence test that also takes a cursor past the highest observed
\* slot.
ConvergedOrPast == highestObservedSlot <= currentSlot

\* Line 187: the cursor has reached the highest observed slot.
Converged == highestObservedSlot = currentSlot

\* A handoff that goes on with the loop.
HandoffContinues == "running"

\* Line 191: after ResumeSync the loop returns.
Handoff == "done"

\* case <-delaychan
Tick ==
    /\ LoopRunning
    /\ ev' = "tick"
    /\ IF currentSlot = 0
       THEN /\ out' = <<>>
            /\ UNCHANGED <<runState, resumeCalls, crystallizedStateUnsub>>
       ELSE IF Converged
       THEN /\ out' = <<ResumeSyncCall>> \o Cleanup
            /\ resumeCalls' = resumeCalls + 1
            /\ runState' = Handoff
            /\ crystallizedStateUnsub' = crystallizedStateUnsub + 1
       ELSE /\ out' = RequestBatchedBlocks(Engine(<<>>), highestObservedSlot).out
            /\ UNCHANGED <<runState, resumeCalls, crystallizedStateUnsub>>
    /\ UNCHANGED frames
    /\ UNCHANGED <<engineVars, crystallizedStateBuf, cancelled, checkState,
                   lfsOf, savedStates>>

\* case msg := <-s.blockAnnounceBuf
BlockAnnounce(slotNumber) ==
    /\ LoopRunning
    /\ ev' = "announce"
    /\ Commit(LET st == ObserveSlot(Engine(<<>>), slotNumber)
              IN  RequestBatchedBlocks(st, st.highestObservedSlot))
    /\ UNCHANGED frames
    /\ UNCHANGED <<crystallizedStateBuf, crystallizedStateUnsub, cancelled,
                   runState, checkState, lfsOf, savedStates, resumeCalls>>

\* case msg := <-s.blockBuf
BlockResponse(block, peer, db) ==
    /\ LoopRunning
    /\ ev' = "block"
    /\ Commit(Feed(Engine(db), block, peer))
    /\ UNCHANGED frames
    /\ UNCHANGED <<crystallizedStateBuf, crystallizedStateUnsub, cancelled,
                   runState, checkState, lfsOf, savedStates, resumeCalls>>

\* case msg := <-s.batchedBlockBuf
BatchedBlockResponse(blocks, peer, db) ==
    /\ LoopRunning
    /\ ev' = "batch"
    /\ Commit(ProcessBatchedBlocks(Engine(db), blocks, peer))
    /\ UNCHANGED frames
    /\ UNCHANGED <<crystallizedStateBuf, crystallizedStateUnsub, cancelled,
                   runState, checkState, lfsOf, savedStates, resumeCalls>>

\* The p2p feed puts a crystallized-state response into crystallizedStateBuf
\* while the subscription stands and the channel has room.
CrystallizedStateArrives(cs) ==
    /\ LoopRunning
    /\ crystallizedStateUnsub = 0
    /\ Len(crystallizedStateBuf) < MaxQueue
    /\ savedStates < MaxStateSaves
    /\ crystallizedStateBuf' = Append(crystallizedStateBuf, cs)
    /\ ev' = "feed"
    /\ out' = <<>>
    /\ UNCHANGED frames
    /\ UNCHANGED <<engineVars, crystallizedStateUnsub, cancelled, runState,
                   checkState, lfsOf, savedStates, resumeCalls>>

\* A response taken for the anchor state whatever it hashes to.
HashAccepted(hash) == TRUE

\* Line 221: the hash of the response is the anchor root.
HashMatches(hash) == hash = initialCrystallizedStateRoot

\* Line 231: the state is not ahead of the cursor.
StateBehind(lfs) == currentSlot >= lfs

\* An adoption that also forgets the anchor root.
AdoptStateClearsAnchor(st, lfs) ==
    LET s1 == RequestNextBlockBySlot(
                  [st EXCEPT !.currentSlot = lfs, !.depth = 0,
                             !.initialCrystallizedStateRoot = ZeroHash],
                  lfs + 1)
    IN  IF s1.crashed THEN s1
        ELSE Emit(s1, UnsubscribeCall("crystallizedStateSub"))

\* An adoption that asks the network for the next block without looking in
\* the buffer.
AdoptStateNoDrain(st, lfs) ==
    Emit(Emit([st EXCEPT !.currentSlot = lfs, !.depth = 0],
              BlockRequest(lfs + 1)),
         UnsubscribeCall("crystallizedStateSub"))

\* Lines 237-241: the last finalized slot becomes the cursor, the next
\* block is requested and the subscription is dropped.
AdoptState(st, lfs) ==
    LET s1 == RequestNextBlockBySlot(
                  [st EXCEPT !.currentSlot = lfs, !.depth = 0],
                  lfs + 1)
    IN  IF s1.crashed THEN s1
        ELSE Emit(s1, UnsubscribeCall("crystallizedStateSub"))

\* case msg := <-s.crystallizedStateBuf
CrystallizedStateResponse(db) ==
    /\ LoopRunning
    /\ crystallizedStateBuf # <<>>
    /\ crystallizedStateBuf' = Tail(crystallizedStateBuf)
    /\ LET cs == Head(crystallizedStateBuf)
       IN  IF initialCrystallizedStateRoot = ZeroHash \/ ~HashMatches(cs.hash)
           THEN /\ ev' = "state"
                /\ out' = <<>>
                /\ UNCHANGED <<engineVars, lfsOf, savedStates,
                               crystallizedStateUnsub>>
           ELSE \E lfs \in (IF cs.hash \in DOMAIN lfsOf
                             THEN {lfsOf[cs.hash]} ELSE Slots) :
                /\ ev' = "state"
                /\ lfsOf' = (cs.hash :> lfs) @@ lfsOf
                /\ savedStates' = savedStates + 1
                /\ LET st == Emit(Engine(db), SaveStateCall(cs.hash, lfs))
                   IN  IF StateBehind(lfs)
                       THEN /\ Commit(st)
                            /\ UNCHANGED crystallizedStateUnsub
                       ELSE /\ Commit(AdoptState(st, lfs))
                            /\ crystallizedStateUnsub' =
                                   IF AdoptState(st, lfs).crashed
                                   THEN crystallizedStateUnsub
                                   ELSE crystallizedStateUnsub + 1
    /\ UNCHANGED frames
    /\ UNCHANGED <<cancelled, runState, checkState, resumeCalls>>

\* ------------------------------------------------------ checkInMemoryBlocks
\* One iteration of the loop of checkInMemoryBlocks.
CheckInMemoryBlocks(db) ==
    /\ checkState = "running"
    /\ ~crashed
    /\ ev' = "check"
    /\ IF cancelled \/ currentSlot = highestObservedSlot
       THEN /\ checkState' = "done"
            /\ out' = <<>>
            /\ UNCHANGED engineVars
       ELSE /\ UNCHANGED checkState
            /\ IF /\ currentSlot + 1 \in DOMAIN inMemoryBlocks
                  /\ currentSlot + 1 <= highestObservedSlot
               THEN Commit(Feed(Engine(db), inMemoryBlocks[currentSlot + 1], NoPeer))
               ELSE out' = <<>> /\ UNCHANGED engineVars
    /\ UNCHANGED frames
    /\ UNCHANGED <<crystallizedStateBuf, crystallizedStateUnsub, cancelled,
                   runState, lfsOf, savedStates, resumeCalls>>

Next ==
    \/ \E synced \in BOOLEAN, err \in BOOLEAN : Start(synced, err)
    \/ Stop
    \/ Done
    \/ Tick
    \/ \E slotNumber \in Slots : BlockAnnounce(slotNumber)
    \/ \E block \in Blocks, peer \in Peers :
           \E db \in OutcomesFor(Feed(Engine(AllSaved), block, peer).calls) :
               BlockResponse(block, peer, db)
    \/ \E blocks \in Batches, peer \in Peers :
           \E db \in OutcomesFor(
                   ProcessBatchedBlocks(Engine(AllSaved), blocks, peer).calls) :
               BatchedBlockResponse(blocks, peer, db)
    \/ \E cs \in CrystallizedStates : CrystallizedStateArrives(cs)
    \/ \E db \in OutcomesFor(Cardinality(DOMAIN inMemoryBlocks)) :
           CrystallizedStateResponse(db)
    \/ \E db \in OutcomesFor(Cardinality(DOMAIN inMemoryBlocks)) :
           CheckInMemoryBlocks(db)

Spec == Init /\ [][Next]_vars

\* ------------------------------------------- the two goroutines, interleaved
\* Start launches run() and checkInMemoryBlocks as two goroutines (lines 144
\* and 149) that share the fields of the service with no lock.  SpecRace
\* takes processBlock statement by statement, for each goroutine, where Spec
\* takes it as one step.  It draws single block responses, announcements
\* and ticks.
Tasks == {"loop", "drain"}

\* The event loop is at its select.
AtSelect == frames.loop.pc = "idle"

\* The frame a chain is left in when its innermost processBlock returns:
\* the frame of line 296 still sends its crystallized state request.
ReturnFrame(f) ==
    IF f.pending # <<>> THEN [f EXCEPT !.pc = "sendState"] ELSE IdleFrame

\* case msg := <-s.blockBuf, up to the call of processBlock.
EnterBlock(block, peer) ==
    /\ LoopRunning
    /\ AtSelect
    /\ frames' = [frames EXCEPT !.loop = Frame("process", block, peer, 0, <<>>)]
    /\ ev' = "block"
    /\ out' = <<>>
    /\ UNCHANGED <<engineVars, crystallizedStateBuf, crystallizedStateUnsub,
                   cancelled, runState, checkState, lfsOf, savedStates,
                   resumeCalls>>

\* One iteration of checkInMemoryBlocks, up to the call of processBlock.
EnterDrain ==
    /\ checkState = "running"
    /\ ~crashed
    /\ frames.drain.pc = "idle"
    /\ ev' = "check"
    /\ out' = <<>>
    /\ IF cancelled \/ currentSlot = highestObservedSlot
       THEN checkState' = "done" /\ UNCHANGED frames
       ELSE /\ UNCHANGED checkState
            /\ IF /\ currentSlot + 1 \in DOMAIN inMemoryBlocks
                  /\ currentSlot + 1 <= highestObservedSlot
               THEN frames' = [frames EXCEPT !.drain =
                                   Frame("process", inMemoryBlocks[currentSlot + 1],
                                         NoPeer, 0, <<>>)]
               ELSE UNCHANGED frames
    /\ UNCHANGED <<engineVars, crystallizedStateBuf, crystallizedStateUnsub,
                   cancelled, runState, lfsOf, savedStates, resumeCalls>>

\* What a step inside processBlock leaves alone.
StepFrame(t, f) ==
    /\ frames' = [frames EXCEPT ![t] = f]
    /\ UNCHANGED <<crystallizedStateBuf, crystallizedStateUnsub, cancelled,
                   runState, checkState, lfsOf, savedStates, resumeCalls>>

\* Lines 272-308 of processBlock: up to the call it makes, or its return.
ProcessStep(t) ==
    LET f  == frames[t]
        s1 == ObserveSlot(Engine(AllSaved), f.block.slot)
    IN  /\ f.pc = "process"
        /\ ~crashed
        /\ ev' = "process"
        /\ IF IsStale(s1, f.block)
           THEN Commit(s1) /\ StepFrame(t, ReturnFrame(f))
           ELSE IF s1.currentSlot = 0
           THEN IF AnchorRootSet(s1)
                THEN Commit(s1) /\ StepFrame(t, ReturnFrame(f))
                ELSE IF ~IsInitialBlock(f.block)
                THEN /\ Commit(BufferBlock(s1, f.block))
                     /\ StepFrame(t, [f EXCEPT !.pc = "request", !.req = 1])
                ELSE /\ Commit(s1)
                     /\ StepFrame(t, [f EXCEPT !.pc = "anchorWrite"])
           ELSE IF ~IsNextBlock(s1, f.block)
           THEN Commit(BufferBlock(s1, f.block)) /\ StepFrame(t, ReturnFrame(f))
           ELSE Commit(s1) /\ StepFrame(t, [f EXCEPT !.pc = "validate"])

\* Lines 393-397 of validateAndSaveNextBlock: the tests before the write.
ValidateStep(t) ==
    LET f == frames[t]
    IN  /\ f.pc = "validate"
        /\ ~crashed
        /\ ev' = "validate"
        /\ out' = <<>>
        /\ UNCHANGED engineVars
        /\ IF currentSlot # 0 /\ IsNextBlock(Engine(AllSaved), f.block)
           THEN StepFrame(t, [f EXCEPT !.pc = "write"])
           ELSE StepFrame(t, [f EXCEPT !.pc = "request", !.req = 0])

\* Line 399: writeBlockToDB; an error returns to line 313.
WriteStep(t, ok) ==
    LET f == frames[t]
    IN  /\ f.pc = "write"
        /\ ~crashed
        /\ ev' = "write"
        /\ Commit(WriteBlockToDB(Engine([k \in 1..MaxOutcomes |-> ok]), f.block))
        /\ IF ok
           THEN StepFrame(t, [f EXCEPT !.pc = "advance"])
           ELSE StepFrame(t, [f EXCEPT !.pc = "request", !.req = 0])

\* Lines 403-409: the cursor moves to the block and the block leaves the
\* buffer.
AdvanceStep(t) ==
    LET f == frames[t]
    IN  /\ f.pc = "advance"
        /\ ~crashed
        /\ ev' = "advance"
        /\ Commit(AdvanceCursor(Engine(AllSaved), f.block))
        /\ StepFrame(t, [f EXCEPT !.pc = "request", !.req = 0])

\* The slot a frame is about to request: the literal 1 of line 290, or
\* s.currentSlot + 1 as read at the call (lines 313 and 359).
RequestedSlot(f) == IF f.req = 0 THEN currentSlot + 1 ELSE f.req

\* requestNextBlockBySlot: the look-up in the buffer, then the call of
\* processBlock or the broadcast.
RequestStep(t) ==
    LET f == frames[t]
        slotnumber == RequestedSlot(f)
    IN  /\ f.pc = "request"
        /\ ~crashed
        /\ ev' = "request"
        /\ UNCHANGED engineVars
        /\ IF slotnumber \in DOMAIN inMemoryBlocks
           THEN /\ out' = <<>>
                /\ StepFrame(t, [f EXCEPT !.pc = "process",
                                          !.block = inMemoryBlocks[slotnumber],
                                          !.peer = NoPeer, !.req = 0])
           ELSE /\ out' = <<BlockRequest(slotnumber)>>
                /\ StepFrame(t, ReturnFrame(f))

\* Line 351 of setBlockForInitialSync: writeBlockToDB; an error returns to
\* line 296.
AnchorWriteStep(t, ok) ==
    LET f == frames[t]
    IN  /\ f.pc = "anchorWrite"
        /\ ~crashed
        /\ ev' = "anchorWrite"
        /\ Commit(WriteBlockToDB(Engine([k \in 1..MaxOutcomes |-> ok]), f.block))
        /\ IF ok
           THEN StepFrame(t, [f EXCEPT !.pc = "anchorSet"])
           ELSE StepFrame(t, [f EXCEPT !.pc = "sendState",
                                      !.pending = <<f.block, f.peer>>])

\* Lines 355-358: the anchor root and the cursor are set.
AnchorSetStep(t) ==
    LET f == frames[t]
    IN  /\ f.pc = "anchorSet"
        /\ ~crashed
        /\ ev' = "anchorSet"
        /\ Commit([Engine(AllSaved) EXCEPT
                      !.initialCrystallizedStateRoot = f.block.root,
                      !.currentSlot = f.block.slot])
        /\ StepFrame(t, [f EXCEPT !.pc = "request", !.req = 0,
                                  !.pending = <<f.block, f.peer>>])

\* Line 296: requestCrystallizedStateFromPeer, then processBlock returns.
SendStateStep(t) ==
    LET f == frames[t]
    IN  /\ f.pc = "sendState"
        /\ ~crashed
        /\ ev' = "sendState"
        /\ Commit(RequestCrystallizedStateFromPeer(Engine(AllSaved),
                                                   f.pending[1], f.pending[2]))
        /\ StepFrame(t, IdleFrame)

\* The goroutine's next statement reads or writes s.inMemoryBlocks.
TouchesBuffer(t) ==
    \/ frames[t].pc \in {"process", "advance", "request"}
    \/ /\ t = "drain"
       /\ frames[t].pc = "idle"
       /\ checkState = "running"
       /\ ~cancelled
       /\ currentSlot # highestObservedSlot

\* The goroutine's next statement writes s.inMemoryBlocks.
WritesBuffer(t) ==
    LET f == frames[t]
    IN  \/ f.pc = "advance" /\ f.block.slot \in DOMAIN inMemoryBlocks
        \/ /\ f.pc = "process"
           /\ f.block.slot >= currentSlot
           /\ f.block.slot \notin DOMAIN inMemoryBlocks
           /\ IF currentSlot = 0
              THEN ~AnchorRootSet(Engine(AllSaved)) /\ ~IsInitialBlock(f.block)
              ELSE ~IsNextBlock(Engine(AllSaved), f.block)

\* Both goroutines are at the map, one of them writing: the Go runtime may
\* stop the process (fatal error: concurrent map read and map write).
ConcurrentMapAccess ==
    /\ ~crashed
    /\ TouchesBuffer("loop") /\ TouchesBuffer("drain")
    /\ WritesBuffer("loop") \/ WritesBuffer("drain")
    /\ crashed' = TRUE
    /\ ev' = "fault"
    /\ out' = <<>>
    /\ UNCHANGED <<currentSlot, highestObservedSlot,
                   initialCrystallizedStateRoot, inMemoryBlocks, savedBlocks,
                   crystallizedStateBuf, crystallizedStateUnsub, cancelled,
                   runState, checkState, lfsOf, savedStates, resumeCalls,
                   frames>>

NextRace ==
    \/ \E synced \in BOOLEAN, err \in BOOLEAN : Start(synced, err)
    \/ Stop
    \/ AtSelect /\ Done
    \/ AtSelect /\ Tick
    \/ \E slotNumber \in Slots : AtSelect /\ BlockAnnounce(slotNumber)
    \/ \E block \in Blocks, peer \in Peers : EnterBlock(block, peer)
    \/ EnterDrain
    \/ \E t \in Tasks : ProcessStep(t)
    \/ \E t \in Tasks : ValidateStep(t)
    \/ \E t \in Tasks, ok \in BOOLEAN : WriteStep(t, ok)
    \/ \E t \in Tasks : AdvanceStep(t)
    \/ \E t \in Tasks : RequestStep(t)
    \/ \E t \in Tasks, ok \in BOOLEAN : AnchorWriteStep(t, ok)
    \/ \E t \in Tasks : AnchorSetStep(t)
    \/ \E t \in Tasks : SendStateStep(t)
    \/ ConcurrentMapAccess

SpecRace == Init /\ [][NextRace]_vars

\* ------------------------------------------------------ reading the call log
\* The db.SaveBlock calls of a log, in order.
IsSaveBlock(call) == call.op = "SaveBlock"
SaveCalls(log) == SelectSeq(log, IsSaveBlock)
IsStored(call) == call.op = "SaveBlock" /\ call.ok
StoredCalls(log) == SelectSeq(log, IsStored)
\* The slots a log broadcasts a BeaconBlockRequestBySlotNumber for.
RequestedSlots(log) ==
    {log[i].slot : i \in {j \in DOMAIN log :
                             log[j].op = "BeaconBlockRequestBySlotNumber"}}

\* ------------------------------------------------------------------- C1
\* C1 as claimed: in every single transition currentSlot never decreases and
\* never increases by more than 1.
C1_SequentialCommit ==
    [][currentSlot' >= currentSlot /\ currentSlot' <= currentSlot + 1]_vars

\* C1 as amended: in every single transition currentSlot never decreases and
\* every block commit advances it by exactly 1: the blocks a transition
\* stores are the blocks of the consecutive slots that end at the new
\* currentSlot, and a transition that saves no crystallized state advances
\* currentSlot by exactly the number of blocks it stores.
C1_CommitByOne ==
    [][LET n == Len(savedBlocks') - Len(savedBlocks)
       IN  /\ currentSlot' >= currentSlot
           /\ Len(savedBlocks') >= Len(savedBlocks)
           /\ \A i \in 1..n :
                  savedBlocks'[Len(savedBlocks) + i].slot + n = currentSlot' + i
           /\ savedStates' = savedStates => currentSlot' = currentSlot + n]_vars

\* A block response was committed together with a buffered block: one
\* transition moved the cursor by two or more.
C1_Witness ==
    /\ ev = "block"
    /\ Len(StoredCalls(out)) >= 2
    /\ currentSlot >= 2

\* ------------------------------------------------------------------- C2
\* C2: while no anchor is set (currentSlot = 0 and the anchor root is zero)
\* no block has been persisted, and of the blocks delivered in that phase
\* only a block of slot 1 is accepted as anchor: it is the first block
\* passed to SaveBlock and, when the save succeeds, the anchor root and the
\* cursor are set from it.  A block of any other slot is left in the
\* in-memory buffer with no SaveBlock call and no anchor set, and a
\* transition that starts in that phase calls SaveBlock for another block
\* only after it has stored a block of slot 1.
NoAnchor == currentSlot = 0 /\ initialCrystallizedStateRoot = ZeroHash

C2_Delivery(block, peer, db) ==
    LET st == Feed(Engine(db), block, peer)
        saves == SaveCalls(st.out)
    IN  IF block.slot # 1
        THEN /\ block.slot \in DOMAIN st.inMemoryBlocks
             /\ saves = <<>>
             /\ st.savedBlocks = <<>>
             /\ st.currentSlot = 0
             /\ st.initialCrystallizedStateRoot = ZeroHash
        ELSE /\ saves # <<>>
             /\ saves[1] = SaveBlockCall(block, db[1])
             /\ db[1] => /\ st.initialCrystallizedStateRoot = block.root
                         /\ st.currentSlot >= 1
                         /\ st.savedBlocks[1] = block
             /\ ~db[1] => /\ st.initialCrystallizedStateRoot = ZeroHash
                          /\ st.currentSlot = 0
                          /\ st.savedBlocks = <<>>

C2_AnchorInvariant ==
    /\ [](savedBlocks # <<>> => savedBlocks[1].slot = 1)
    /\ [](NoAnchor =>
            /\ savedBlocks = <<>>
            /\ \A block \in Blocks, peer \in Peers, db \in Outcomes :
                   C2_Delivery(block, peer, db))
    /\ [][NoAnchor =>
            LET saves == SaveCalls(out')
                anchors == {j \in DOMAIN saves : saves[j].slot = 1 /\ saves[j].ok}
            IN  /\ \A i \in DOMAIN saves :
                       saves[i].slot # 1 => \E j \in anchors : j < i
                /\ ~NoAnchor' =>
                       /\ currentSlot' >= 1
                       /\ \E j \in anchors :
                              /\ \A k \in anchors : j <= k
                              /\ initialCrystallizedStateRoot' = saves[j].hash]_vars

\* The anchor was accepted after blocks of other slots had been buffered:
\* the transition of the slot-1 block stored it first and then the buffered
\* block of slot 2.
C2_Witness ==
    /\ ev = "block"
    /\ Len(SaveCalls(out)) >= 2
    /\ out[1] = SaveBlockCall(savedBlocks[1], TRUE)
    /\ out[1].slot = 1
    /\ out[2].op = "SaveBlock" /\ out[2].slot = 2

\* ------------------------------------------------------------------- C3
\* C3: a timer tick handled with currentSlot = highestObservedSlot # 0 calls
\* ResumeSync and ends the event loop; ResumeSync is called by nothing else,
\* the loop once ended handles no further tick or message, and over the
\* whole run ResumeSync is called at most once.
C3_HandoffOnce ==
    /\ [](resumeCalls <= 1)
    /\ [][(ev' = "tick" /\ currentSlot # 0 /\ currentSlot = highestObservedSlot)
            => /\ resumeCalls' = resumeCalls + 1
               /\ out'[1] = ResumeSyncCall
               /\ runState' = "done"]_vars
    /\ [][resumeCalls' # resumeCalls
            => /\ ev' = "tick"
               /\ currentSlot # 0 /\ currentSlot = highestObservedSlot]_vars
    /\ [][runState = "done"
            => /\ runState' = "done"
               /\ ev' \in {"stop", "check"}
               /\ UNCHANGED <<resumeCalls, currentSlot, highestObservedSlot>>]_vars

\* The handoff happened, and the engine took a further step after it.
C3_Witness ==
    /\ resumeCalls = 1
    /\ runState = "done"
    /\ currentSlot = highestObservedSlot /\ currentSlot # 0
    /\ ev # "tick"

\* ------------------------------------------------------------------- C4
\* C4 as claimed: with currentSlot > 0, a single-block response whose block
\* has a slot <= currentSlot changes none of currentSlot,
\* highestObservedSlot, the anchor root and the in-memory buffer, and calls
\* SaveBlock for nothing.
C4_StaleDiscard ==
    [][\A block \in Blocks, peer \in Peers, db \in Outcomes :
          (/\ currentSlot > 0
           /\ block.slot <= currentSlot
           /\ BlockResponse(block, peer, db))
          => /\ UNCHANGED <<currentSlot, highestObservedSlot,
                            initialCrystallizedStateRoot, inMemoryBlocks>>
             /\ SaveCalls(out') = <<>>]_vars

\* ------------------------------------------------------------------- C5
\* C5: a crystallized-state response handled while the anchor root is zero,
\* or whose hash differs from the anchor root, is discarded: no call is made
\* (no SaveCrystallizedState, no request, no Unsubscribe) and no variable of
\* the engine changes, the response leaving the channel apart.
C5_MismatchDiscarded ==
    [][(/\ ev' = "state"
        /\ crystallizedStateBuf # <<>>
        /\ \/ initialCrystallizedStateRoot = ZeroHash
           \/ Head(crystallizedStateBuf).hash # initialCrystallizedStateRoot)
       => /\ out' = <<>>
          /\ crystallizedStateBuf' = Tail(crystallizedStateBuf)
          /\ UNCHANGED <<currentSlot, highestObservedSlot,
                         initialCrystallizedStateRoot, inMemoryBlocks,
                         crystallizedStateUnsub, cancelled, runState,
                         checkState, crashed, lfsOf, savedBlocks, savedStates,
                         resumeCalls>>]_vars

\* A response was handled and discarded while an anchor root was set: its
\* hash was not the anchor root.
C5_Witness ==
    /\ ev = "state"
    /\ out = <<>>
    /\ initialCrystallizedStateRoot # ZeroHash
    /\ savedStates = 0
    /\ currentSlot = 1

\* ------------------------------------------------------------------- C6
\* C6: across any sequence of crystallized-state responses,
\* SaveCrystallizedState is called at most once.
C6_SavedAtMostOnce == savedStates <= 1

\* ------------------------------------------------------------------- C7
\* The engine at cursor c with a block buffered at every slot c+1..c+k (the
\* entries the buffer already holds are kept) and highestObservedSlot at
\* least c+k.
C7_Buffered(st, c, k) ==
    [st EXCEPT
        !.inMemoryBlocks =
            [s \in (DOMAIN @) \cup ((c + 1)..(c + k)) |->
                IF s \in DOMAIN @ THEN @[s] ELSE [slot |-> s, root |-> MaxRoot]],
        !.highestObservedSlot = IF @ >= c + k THEN @ ELSE c + k]

\* The calls of a drain of the slots c+1..c+k of a buffer.
C7_DrainCalls(mem, c, k) ==
    [i \in 1..k |-> SaveBlockCall(mem[c + i], TRUE)]
        \o <<BlockRequest(c + k + 1)>>

\* Two runs ended in the same engine state with the same calls.
C7_SameOutcome(r, d) ==
    /\ r.currentSlot = d.currentSlot
    /\ r.highestObservedSlot = d.highestObservedSlot
    /\ r.inMemoryBlocks = d.inMemoryBlocks
    /\ r.savedBlocks = d.savedBlocks
    /\ r.crashed = d.crashed
    /\ r.out = d.out

\* C7: from a state with currentSlot = c > 0, blocks buffered at every slot
\* c+1..c+k and none at c+k+1, highestObservedSlot >= c+k and successful
\* persists, the next-slot request for c+1, and equally the feed of the
\* drain task, ends with currentSlot = c+k, having written exactly the
\* buffered blocks of those slots, in order, removed them from the buffer
\* and broadcast a request for c+k+1 only. In every transition no
\* BeaconBlockRequestBySlotNumber is broadcast for a slot the buffer holds.
C7_DrainCorrect ==
    /\ [](\A k \in 1..MaxSlot :
            (currentSlot > 0 /\ ~crashed
                /\ currentSlot + k + 1 \notin DOMAIN inMemoryBlocks)
            => LET c == currentSlot
                   h == C7_Buffered(Engine(AllSaved), c, k)
                   r == RequestNextBlockBySlot(h, c + 1)
                   d == Feed(h, h.inMemoryBlocks[c + 1], NoPeer)
               IN  /\ r.currentSlot = c + k
                   /\ ~r.crashed
                   /\ r.savedBlocks =
                          savedBlocks \o [i \in 1..k |-> h.inMemoryBlocks[c + i]]
                   /\ r.out = C7_DrainCalls(h.inMemoryBlocks, c, k)
                   /\ RequestedSlots(r.out) \cap ((c + 1)..(c + k)) = {}
                   /\ r.inMemoryBlocks =
                          [s \in (DOMAIN h.inMemoryBlocks) \ ((c + 1)..(c + k))
                              |-> h.inMemoryBlocks[s]]
                   /\ C7_SameOutcome(r, d))
    /\ [][RequestedSlots(out') \cap DOMAIN inMemoryBlocks = {}]_vars

\* A delivery of the block of slot 1 found the blocks of the next two slots
\* in the buffer and wrote all three, asking the network for the slot after
\* them only.
C7_Witness ==
    /\ ev = "block"
    /\ Len(StoredCalls(out)) >= 3
    /\ currentSlot = 3
    /\ RequestedSlots(out) = {4}

\* ------------------------------------------------------------------- C8
\* The blocks of the slots c+1..c+k, in slot order.
C8_Blocks(c, k, root) == [i \in 1..k |-> [slot |-> c + i, root |-> root]]

\* The orders k blocks can be delivered in.
C8_Orders(k) ==
    {p \in [1..k -> 1..k] : \A i, j \in 1..k : p[i] = p[j] => i = j}

\* Single BeaconBlockResponse messages, one after the other.
RECURSIVE C8_Singles(_, _, _)
C8_Singles(st, blocks, peer) ==
    IF blocks = <<>>
    THEN st
    ELSE C8_Singles(Feed(st, Head(blocks), peer), Tail(blocks), peer)

\* The blocks delivered in the given order: the first m as single
\* responses, the rest as one batched response.
C8_Deliver(st, blocks, m, peer) ==
    ProcessBatchedBlocks(C8_Singles(st, SubSeq(blocks, 1, m), peer),
                         SubSeq(blocks, m + 1, Len(blocks)), peer)

\* Every order and every mix of single and batched responses ends with the
\* cursor at c+k, the blocks stored once each in slot order after what was
\* stored before, and the buffer as it was.
C8_SameEnd(k, root) ==
    LET c == currentSlot
        blocks == C8_Blocks(c, k, root)
    IN  \A p \in C8_Orders(k) :
            \A m \in 0..k : \A peer \in Peers :
                LET r == C8_Deliver(Engine(AllSaved),
                                    [i \in 1..k |-> blocks[p[i]]], m, peer)
                IN  /\ r.currentSlot = c + k
                    /\ ~r.crashed
                    /\ r.savedBlocks = savedBlocks \o blocks
                    /\ r.inMemoryBlocks = inMemoryBlocks
                    /\ (DOMAIN r.inMemoryBlocks) \cap ((c + 1)..(c + k)) = {}

\* C8 as stated: from every state of the running loop with currentSlot =
\* c > 0, whatever the buffer holds, with successful persists, delivering
\* the blocks of the slots c+1..c+k once each, in any order and mix, ends
\* with currentSlot = c+k, each block stored once and none of the slots in
\* the buffer.
C8_OrderIndependent ==
    \A k \in 1..MaxSlot :
        (LoopRunning /\ currentSlot > 0) => C8_SameEnd(k, MaxRoot)

\* C8, from a buffer that holds none of the slots c+1..c+k+1: from every
\* state of the running loop with currentSlot = c > 0 whose buffer has no
\* entry at the slots c+1..c+k+1, with successful persists, delivering the
\* blocks of the slots c+1..c+k once each, in any order and mix of single
\* and batched responses, ends with currentSlot = c+k, each block stored
\* once, in slot order, and none of the slots in the buffer.
C8_OrderIndependentFromFreeBuffer ==
    \A k \in 1..MaxSlot :
        (LoopRunning /\ currentSlot > 0
            /\ (DOMAIN inMemoryBlocks)
                   \cap ((currentSlot + 1)..(currentSlot + k + 1)) = {})
        => C8_SameEnd(k, MaxRoot)

\* The block of slot 3 was delivered before the block of slot 2: the
\* delivery of slot 2 stored both and the buffer is empty again.
C8_Witness ==
    /\ ev = "block"
    /\ Len(StoredCalls(out)) = 2
    /\ out[1].slot = 2
    /\ currentSlot = 3
    /\ inMemoryBlocks = <<>>

\* ------------------------------------------------------------------- C9
\* C9: in every reachable state where currentSlot and highestObservedSlot
\* are both non-zero, currentSlot <= highestObservedSlot.
C9_CursorBelowHead ==
    (currentSlot # 0 /\ highestObservedSlot # 0)
        => currentSlot <= highestObservedSlot

\* ------------------------------------------------------------------ C10
\* C10: once the anchor root is non-zero, no transition changes it.
C10_AnchorWriteOnce ==
    [][initialCrystallizedStateRoot # ZeroHash
       => initialCrystallizedStateRoot' = initialCrystallizedStateRoot]_vars

\* The anchor root is set, the anchor state was adopted, and a later block
\* of slot 1 naming another crystallized state root was delivered.
C10_Witness ==
    /\ initialCrystallizedStateRoot # ZeroHash
    /\ 1 \in DOMAIN inMemoryBlocks
    /\ inMemoryBlocks[1].root # initialCrystallizedStateRoot
    /\ savedStates >= 1

\* ------------------------------------------------------------------ C11
\* C11: in no reachable state are the event loop and the drain task both
\* in the middle of a transition that touches currentSlot,
\* highestObservedSlot, the anchor root or the buffer (both inside
\* processBlock at once).
C11_SingleMutator ==
    ~(frames.loop.pc # "idle" /\ frames.drain.pc # "idle")

\* ------------------------------------------------------------------ C12
\* C12: under every interleaving of the event loop and the drain task the
\* slots of the blocks persisted by SaveBlock are strictly increasing: no
\* slot's block is persisted twice.
C12_OrderedPersistence ==
    \A i, j \in DOMAIN savedBlocks :
        i < j => savedBlocks[i].slot < savedBlocks[j].slot

\* ------------------------------------------------------------------ C13
\* How often a log makes the call op on the subscription or queue named.
C13_Count(log, op, name) ==
    Cardinality({i \in DOMAIN log : log[i].op = op /\ log[i].of = name})

\* C13: whenever the event loop exits, each of the four subscriptions is
\* unsubscribed exactly once (the crystallized-state subscription counting
\* an earlier release after the anchor match) and each of the four input
\* queues is closed exactly once.
C13_CleanupOnce ==
    [][(runState = "running" /\ runState' = "done")
       => /\ \A sub \in {"blockSub", "batchedBlocksub", "blockAnnounceSub"} :
                 C13_Count(out', "Unsubscribe", sub) = 1
          /\ crystallizedStateUnsub' = 1
          /\ \A buf \in {"blockBuf", "batchedBlockBuf", "blockAnnounceBuf",
                          "crystallizedStateBuf"} :
                 C13_Count(out', "close", buf) = 1]_vars

\* ------------------------------------------------------------------ C14
\* C14: after Stop no message and no timer tick is processed and no engine
\* state is mutated: the next selection of the event loop observes the
\* cancellation.
C14_CooperativeCancel ==
    [][cancelled
       => /\ ev' \notin {"tick", "announce", "block", "batch", "state"}
          /\ UNCHANGED <<currentSlot, highestObservedSlot,
                         initialCrystallizedStateRoot, inMemoryBlocks,
                         savedBlocks>>]_vars

\* ------------------------------------------------------------------ C15
\* C15: a timer tick changes no engine state; while currentSlot = 0 it makes
\* no call and the loop keeps running; with currentSlot # 0 and currentSlot
\* # highestObservedSlot it broadcasts exactly one batched request, for
\* currentSlot+1..highestObservedSlot, and the loop keeps running; and
\* ResumeSync is only ever called from a state with currentSlot # 0 and
\* currentSlot = highestObservedSlot.
C15_TickUnanchored ==
    [][/\ ev' = "tick"
          => /\ UNCHANGED <<currentSlot, highestObservedSlot,
                            initialCrystallizedStateRoot, inMemoryBlocks,
                            savedBlocks, savedStates, crystallizedStateBuf>>
             /\ currentSlot = 0
                   => out' = <<>> /\ UNCHANGED <<runState, resumeCalls>>
             /\ (currentSlot # 0 /\ currentSlot # highestObservedSlot)
                   => /\ out' = <<BatchedRequest(currentSlot + 1,
                                                 highestObservedSlot)>>
                      /\ UNCHANGED <<runState, resumeCalls>>
       /\ resumeCalls' # resumeCalls
          => currentSlot # 0 /\ currentSlot = highestObservedSlot]_vars

\* A tick was handled while blocks were buffered and no anchor was set.
C15_Witness ==
    /\ ev = "tick"
    /\ currentSlot = 0
    /\ inMemoryBlocks # <<>>
    /\ out = <<>>
    /\ runState = "running"

\* ------------------------------------------------------------------ C16
\* C16: whenever IsSynced returns an error, whatever boolean comes with it,
\* Start launches the event loop and the drain task.
C16_FailsOpen ==
    [][\A synced \in BOOLEAN :
          Start(synced, TRUE)
          => runState' = "running" /\ checkState' = "running"]_vars

\* ------------------------------------------------------------------ C17
\* The block is the anchor block (slot 1 while unanchored) or the block
\* right after the cursor.
C17_Committable(block) ==
    \/ currentSlot = 0 /\ initialCrystallizedStateRoot = ZeroHash
                       /\ IsInitialBlock(block)
    \/ currentSlot # 0 /\ block.slot = currentSlot + 1

\* C17 as stated: when SaveBlock returns an error for the anchor block or
\* for the block right after the cursor, the transition ends as if the save
\* had succeeded: currentSlot is the block's slot and, for the anchor, the
\* anchor root is the block's crystallized state root.
C17_AdvanceRegardless ==
    \A block \in Blocks, peer \in Peers, db \in Outcomes :
        (LoopRunning /\ C17_Committable(block) /\ ~db[1])
        => LET r == Feed(Engine(db), block, peer)
           IN  /\ r.currentSlot = block.slot
               /\ currentSlot = 0
                     => r.initialCrystallizedStateRoot = block.root

\* C17, amended: when SaveBlock returns an error for the anchor block or
\* for the block right after the cursor, delivered by a block response, the
\* handler returns with currentSlot, the anchor root, the buffer and the
\* stored blocks unchanged; after the failed call it only sends the
\* crystallized state request (anchor) or broadcasts the request for
\* currentSlot+1 again (next block).
C17_NoAdvanceOnError ==
    \A block \in Blocks, peer \in Peers, db \in Outcomes :
        (LoopRunning /\ C17_Committable(block) /\ ~db[1])
        => LET r == Feed(Engine(db), block, peer)
           IN  /\ ~r.crashed
               /\ r.currentSlot = currentSlot
               /\ r.initialCrystallizedStateRoot = initialCrystallizedStateRoot
               /\ r.inMemoryBlocks = inMemoryBlocks
               /\ r.savedBlocks = savedBlocks
               /\ r.out = <<SaveBlockCall(block, FALSE),
                            IF currentSlot = 0
                            THEN StateRequest(block.root, peer)
                            ELSE BlockRequest(currentSlot + 1)>>

\* A response with the block right after the cursor was handled, SaveBlock
\* returned an error and the cursor stayed.
C17_Witness ==
    /\ ev = "block"
    /\ Len(out) = 2
    /\ out[1].op = "SaveBlock"
    /\ ~out[1].ok
    /\ currentSlot >= 1
    /\ out[1].slot = currentSlot + 1

\* ------------------------------------------------------------------ C18
\* C18: every call of processBlock returns, also while SaveBlock keeps
\* failing and the buffer holds the block right after the cursor: no chain
\* processBlock -> requestNextBlockBySlot -> processBlock goes on for ever.
C18_ProcessBlockReturns == ~crashed

\* ------------------------------------------------------------------ C19
\* C19: whenever a CrystallizedStateRequest is sent, the anchor was accepted
\* in that transition: the block of slot 1 was persisted, the anchor root is
\* the hash of the request, currentSlot is 1 and no other block was
\* committed in the transition.
C19_AnchorAccepted ==
    [][\A i \in DOMAIN out' :
          out'[i].op = "CrystallizedStateRequest"
          => /\ initialCrystallizedStateRoot' = out'[i].hash
             /\ currentSlot' = 1
             /\ Len(StoredCalls(out')) = 1
             /\ StoredCalls(out')[1].slot = 1
             /\ StoredCalls(out')[1].hash = out'[i].hash]_vars

\* ------------------------------------------------------------------ C20
\* C20: once started the drain task keeps running until cancellation or
\* handoff; it does not terminate before any block or announcement has been
\* seen.
C20_DrainKeepsRunning ==
    [][(checkState = "running" /\ checkState' = "done")
       => (cancelled \/ runState = "done")]_vars

\* ------------------------------------------------------------------ C21
\* C21: after each completed transition of the event loop with currentSlot
\* > 0 (no processBlock chain lost in failing persists) the buffer holds no
\* entry at slot currentSlot+1.
C21_NoDrainableLeft ==
    (currentSlot > 0 /\ ~crashed) => currentSlot + 1 \notin DOMAIN inMemoryBlocks

\* The adoption of a crystallized state with last finalized slot 2 found
\* the block of slot 3 in the buffer and committed it.
C21_Witness ==
    /\ ev = "state"
    /\ crystallizedStateUnsub = 1
    /\ Len(StoredCalls(out)) = 1
    /\ currentSlot = 3
    /\ RequestedSlots(out) = {4}

\* ------------------------------------------------------------------ C22
\* C22: every BatchedBeaconBlockRequest the engine broadcasts names a
\* non-empty range: StartSlot = currentSlot+1 <= EndSlot =
\* highestObservedSlot.
C22_NonEmptyRange ==
    [][\A i \in DOMAIN out' :
          out'[i].op = "BatchedBeaconBlockRequest"
          => /\ out'[i].slot = currentSlot' + 1
             /\ out'[i].hash = highestObservedSlot'
             /\ out'[i].slot <= out'[i].hash]_vars

\* ------------------------------------------------------------------ C23
\* C23: ResumeSync is never called before a crystallized state matching the
\* anchor root has been persisted.
C23_NoHandoffWhileAnchoring == resumeCalls > 0 => savedStates > 0

====
